---- MODULE Spec2Model ----
(***************************************************************************)
(* Model of the ngrams crate (src/src/lib.rs): the windowing iterator      *)
(* Ngrams, the padding iterator Padded it may be rebound through, and the  *)
(* caller's token iterator underneath.                                     *)
(*                                                                         *)
(* The caller's iterator is modelled as a script: the value each           *)
(* successive call of its next() returns, a token or None, followed by     *)
(* None for ever.  A script with a token after a None is an iterator that  *)
(* is not fused, which the Iterator protocol allows.                       *)
(***************************************************************************)
EXTENDS Integers, Sequences, FiniteSets, TLC

\* ------------------------------------------------------------------ bounds
MaxN == 3          \* largest window size passed to Ngrams::new
MaxLen == 4        \* longest script of the caller's iterator
MaxPads == 1       \* most calls of Ngrams::pad on one producer
UsizeBits == 3     \* width of usize in the model (64 in the build)

UsizeMax == 2^UsizeBits - 1
IsizeMax == 2^(UsizeBits - 1) - 1

\* ------------------------------------------------------------------ tokens
None == "None"
WORD_SEP == "pad"

\* Pad::symbol for the token type
Pad_symbol == WORD_SEP

\* The values of the token type T: a zero-sized type has one value only,
\* which is then also what symbol() returns; otherwise the sentinel and
\* one other value, both of which the caller's iterator may yield.
TokenValues(size) == IF size = 0 THEN {WORD_SEP} ELSE {"a", WORD_SEP}

Scripts(size) ==
    UNION {[1..k -> TokenValues(size) \cup {None}] : k \in 0..MaxLen}

\* --------------------------------------------------------------- the state
VARIABLES
    overflowChecks, \* build option: arithmetic overflow panics (debug) or wraps
    tokSize,        \* size_of::<T>(): 0 for a zero-sized token type
    input,          \* script of the caller's iterator
    cursor,         \* how many calls of the caller's next() have been made
    pc,             \* "start" | "live" | "panicked"
    n,              \* the n given to Ngrams::new (0 before the call)
    source,         \* Ngrams.source: the Padded layers, outermost first,
                    \* over the caller's iterator
    num,            \* Ngrams.num
    memsize,        \* Ngrams.memsize
    memory,         \* Ngrams.memory, front first
    pad,            \* Ngrams.pad
    out,            \* windows returned by Ngrams::next so far
    consumed,       \* tokens Ngrams pulled from self.source so far
    pulled,         \* Ngrams::next has been called
    latePad,        \* Ngrams::pad was called after a call of next
    doneOut,        \* Len(out) when next first returned None, else -1
    doneIn,         \* Len(consumed) when next first returned None, else -1
    donePads,       \* Len(source) when next first returned None, else -1
    twin,           \* the two-countdown padding machines of the design, one
                    \* for each Padded layer, pulled in lockstep with source
    twinCursor,     \* position of the twins' copy of the caller's iterator
    agree,          \* every pull so far returned the same from both
    panicAt         \* "none" | "new" | "pad" | "first" | "later"

vars == <<overflowChecks, tokSize, input, cursor, pc, n, source, num, memsize,
          memory, pad, out, consumed, pulled, latePad, doneOut, doneIn,
          donePads, twin, twinCursor, agree, panicAt>>

config == <<overflowChecks, tokSize>>
hist == <<out, consumed, pulled, latePad, doneOut, doneIn, donePads, twin,
          twinCursor, agree>>

\* ----------------------------------------------------------- usize, VecDeque
\* a - 1 on usize: Overflow stands for the panic of a build with overflow
\* checks, a build without them wraps
Overflow == 0 - 1

usize_dec(a, checks) ==
    IF a > 0 THEN a - 1
    ELSE IF checks THEN Overflow
    ELSE (a - 1) % (UsizeMax + 1)

\* VecDeque::with_capacity(cap) panics ("capacity overflow") when the
\* allocation would exceed isize::MAX bytes
with_capacity_ok(cap, size) == cap * size <= IsizeMax

\* let memsize = n - 1 in Ngrams::new
new_memsize_same(k, checks) == k

new_memsize(k, checks) == usize_dec(k, checks)

\* Pad::len, the default
Pad_len_same(k, checks) == k

Pad_len_zero(k, checks) == 0

Pad_len_short(k, checks) == IF k >= 2 THEN k - 2 ELSE 0

Pad_len(k, checks) == usize_dec(k, checks)

\* --------------------------------------------------- the caller's iterator
raw_next(in, cur) ==
    IF cur < Len(in)
    THEN [val |-> in[cur + 1], cur |-> cur + 1]
    ELSE [val |-> None, cur |-> cur]

\* ------------------------------------------------------------------ Padded
Padded_new_unarmed(k, checks) ==
    LET l == Pad_len(k, checks)
    IN  [len |-> l, symbol |-> Pad_symbol, remaining |-> 0, end |-> FALSE]

\* Padded::new counting down from n instead of from T::len(n)
Padded_new_n(k, checks) ==
    [len |-> k, symbol |-> Pad_symbol, remaining |-> k, end |-> FALSE]

Padded_new(k, checks) ==
    LET l == Pad_len(k, checks)
    IN  [len |-> l, symbol |-> Pad_symbol, remaining |-> l, end |-> FALSE]

\* Padded::next with the two tests made on an exhausted source in the
\* other order
Padded_next_swapped(p, result) ==
    IF p.remaining > 0
    THEN [val |-> p.symbol, self |-> [p EXCEPT !.remaining = @ - 1],
          asked |-> FALSE]
    ELSE IF result = None
    THEN [val |-> None,
          self |-> IF ~p.end
                   THEN [p EXCEPT !.end = TRUE, !.remaining = p.len]
                   ELSE p,
          asked |-> TRUE]
    ELSE [val |-> result, self |-> p, asked |-> TRUE]

\* Padded::next with end following the source: cleared again by a token
Padded_next_reset(p, result) ==
    IF p.remaining > 0
    THEN [val |-> p.symbol, self |-> [p EXCEPT !.remaining = @ - 1],
          asked |-> FALSE]
    ELSE IF result = None
    THEN LET q == IF ~p.end
                  THEN [p EXCEPT !.end = TRUE, !.remaining = p.len]
                  ELSE p
         IN  IF q.remaining > 0
             THEN [val |-> q.symbol, self |-> [q EXCEPT !.remaining = @ - 1],
                   asked |-> TRUE]
             ELSE [val |-> None, self |-> q, asked |-> TRUE]
    ELSE [val |-> result, self |-> [p EXCEPT !.end = FALSE], asked |-> TRUE]

\* Padded::next on the layer p, where result is what p's own source
\* returns if it is pulled; asked tells whether it was pulled
Padded_next(p, result) ==
    IF p.remaining > 0
    THEN [val |-> p.symbol, self |-> [p EXCEPT !.remaining = @ - 1],
          asked |-> FALSE]
    ELSE IF result = None
    THEN LET q == IF ~p.end
                  THEN [p EXCEPT !.end = TRUE, !.remaining = p.len]
                  ELSE p
         IN  IF q.remaining > 0
             THEN [val |-> q.symbol, self |-> [q EXCEPT !.remaining = @ - 1],
                   asked |-> TRUE]
             ELSE [val |-> None, self |-> q, asked |-> TRUE]
    ELSE [val |-> result, self |-> p, asked |-> TRUE]

\* self.source.next() of Ngrams: through the Padded layers down to the
\* caller's iterator
RECURSIVE source_next(_, _, _)
source_next(src, in, cur) ==
    IF src = <<>>
    THEN LET r == raw_next(in, cur)
         IN  [val |-> r.val, src |-> <<>>, cur |-> r.cur]
    ELSE LET inner == source_next(Tail(src), in, cur)
             r == Padded_next(Head(src), inner.val)
         IN  IF r.asked
             THEN [val |-> r.val, src |-> <<r.self>> \o inner.src,
                   cur |-> inner.cur]
             ELSE [val |-> r.val, src |-> <<r.self>> \o Tail(src),
                   cur |-> cur]

\* ------------------------------------------- the two-countdown machine
\* The padding stage as the design describes it: a leading and a trailing
\* countdown, both starting at P, and a flag for the exhausted source.
Twin_new(P) ==
    [len |-> P, leading |-> P, trailing |-> P, exhausted |-> FALSE]

Twin_next(t, result) ==
    IF t.leading > 0
    THEN [val |-> Pad_symbol, self |-> [t EXCEPT !.leading = @ - 1],
          asked |-> FALSE]
    ELSE IF result # None
    THEN [val |-> result, self |-> t, asked |-> TRUE]
    ELSE LET q == IF ~t.exhausted
                  THEN [t EXCEPT !.exhausted = TRUE, !.trailing = t.len]
                  ELSE t
         IN  IF q.trailing > 0
             THEN [val |-> Pad_symbol, self |-> [q EXCEPT !.trailing = @ - 1],
                   asked |-> TRUE]
             ELSE [val |-> None, self |-> q, asked |-> TRUE]

RECURSIVE twin_source_next(_, _, _)
twin_source_next(tw, in, cur) ==
    IF tw = <<>>
    THEN LET r == raw_next(in, cur)
         IN  [val |-> r.val, layers |-> <<>>, cur |-> r.cur]
    ELSE LET inner == twin_source_next(Tail(tw), in, cur)
             r == Twin_next(Head(tw), inner.val)
         IN  IF r.asked
             THEN [val |-> r.val, layers |-> <<r.self>> \o inner.layers,
                   cur |-> inner.cur]
             ELSE [val |-> r.val, layers |-> <<r.self>> \o Tail(tw),
                   cur |-> cur]

\* k pulls of the twins, s = [layers, cur, vals]
RECURSIVE twin_pulls(_, _, _)
twin_pulls(s, in, k) ==
    IF k = 0 THEN s
    ELSE LET r == twin_source_next(s.layers, in, s.cur)
         IN  twin_pulls([layers |-> r.layers, cur |-> r.cur,
                         vals |-> Append(s.vals, r.val)], in, k - 1)

\* ------------------------------------------------------------------ Ngrams
\* fill_memory that stops at an exhausted source instead of unwrapping
RECURSIVE fill_memory_lenient(_, _, _)
fill_memory_lenient(s, size, in) ==
    IF Len(s.memory) < size
    THEN LET a == source_next(s.source, in, s.cursor)
         IN  IF a.val = None
             THEN [s EXCEPT !.source = a.src, !.cursor = a.cur]
             ELSE fill_memory_lenient([s EXCEPT !.memory = Append(@, a.val),
                                                !.source = a.src,
                                                !.cursor = a.cur,
                                                !.taken = Append(@, a.val)],
                                      size, in)
    ELSE s

\* Ngrams::fill_memory on s = [memory, source, cursor, taken, ok]:
\* ok = FALSE is the unwrap of None
RECURSIVE fill_memory(_, _, _)
fill_memory(s, size, in) ==
    IF Len(s.memory) < size
    THEN LET a == source_next(s.source, in, s.cursor)
         IN  IF a.val = None
             THEN [s EXCEPT !.source = a.src, !.cursor = a.cur, !.ok = FALSE]
             ELSE fill_memory([s EXCEPT !.memory = Append(@, a.val),
                                        !.source = a.src,
                                        !.cursor = a.cur,
                                        !.taken = Append(@, a.val)],
                              size, in)
    ELSE s

\* the new element pushed before the memory
window_front(mem, x) == <<x>> \o mem

\* the Vec the closure of next builds from the memory and the new element
window(mem, x) == mem \o <<x>>

\* pop_back in place of pop_front
slide_back(mem, x) ==
    (IF mem = <<>> THEN <<>> ELSE SubSeq(mem, 1, Len(mem) - 1)) \o <<x>>

\* push_back left out
slide_stale(mem, x) == mem

\* the memory emptied after a window
slide_clear(mem, x) == <<>>

\* memory.pop_front(); memory.push_back(x)
slide(mem, x) == (IF mem = <<>> THEN <<>> ELSE Tail(mem)) \o <<x>>

Init ==
    /\ overflowChecks \in BOOLEAN
    /\ tokSize \in {0, 1}
    /\ input = <<>>
    /\ cursor = 0
    /\ pc = "start"
    /\ n = 0
    /\ source = <<>>
    /\ num = 0
    /\ memsize = 0
    /\ memory = <<>>
    /\ pad = FALSE
    /\ out = <<>>
    /\ consumed = <<>>
    /\ pulled = FALSE
    /\ latePad = FALSE
    /\ doneOut = -1
    /\ doneIn = -1
    /\ donePads = -1
    /\ twin = <<>>
    /\ twinCursor = 0
    /\ agree = TRUE
    /\ panicAt = "none"

\* Ngrams::new(src, k)
Ngrams_new(src, k) ==
    /\ pc = "start"
    /\ panicAt = "none"
    /\ input' = src
    /\ n' = k
    /\ LET m == new_memsize(k, overflowChecks)
       IN  IF m = Overflow \/ ~with_capacity_ok(m, tokSize)
           THEN /\ pc' = "panicked"
                /\ panicAt' = "new"
                /\ UNCHANGED <<num, memsize>>
           ELSE /\ pc' = "live"
                /\ num' = k
                /\ memsize' = m
                /\ UNCHANGED panicAt
    /\ UNCHANGED <<config, cursor, source, memory, pad, hist>>

\* Ngrams::pad(self)
Ngrams_pad ==
    /\ pc = "live"
    /\ Len(source) < MaxPads
    /\ IF Pad_len(num, overflowChecks) = Overflow
       THEN /\ pc' = "panicked"
            /\ panicAt' = "pad"
            /\ UNCHANGED <<source, pad, latePad, twin>>
       ELSE /\ pad' = TRUE
            /\ source' = <<Padded_new(num, overflowChecks)>> \o source
            /\ latePad' = (latePad \/ pulled)
            /\ twin' = <<Twin_new(Pad_len(num, overflowChecks))>> \o twin
            /\ UNCHANGED <<pc, panicAt>>
    /\ UNCHANGED <<config, input, cursor, n, num, memsize, memory, out,
                   consumed, pulled, doneOut, doneIn, donePads, twinCursor,
                   agree>>

\* Ngrams::next(&mut self)
Ngrams_next ==
    /\ pc = "live"
    /\ pulled' = TRUE
    /\ LET f == fill_memory([memory |-> memory, source |-> source,
                             cursor |-> cursor, taken |-> <<>>, ok |-> TRUE],
                            memsize, input)
           r == source_next(f.source, input, f.cursor)
           vals == f.taken \o <<IF f.ok THEN r.val ELSE None>>
           t == twin_pulls([layers |-> twin, cur |-> twinCursor,
                            vals |-> <<>>], input, Len(vals))
       IN  /\ twin' = t.layers
           /\ twinCursor' = t.cur
           /\ agree' = (agree /\ t.vals = vals)
           /\ IF ~f.ok
              THEN /\ pc' = "panicked"
                   /\ panicAt' = IF pulled THEN "later" ELSE "first"
                   /\ memory' = f.memory
                   /\ source' = f.source
                   /\ cursor' = f.cursor
                   /\ consumed' = consumed \o f.taken
                   /\ UNCHANGED <<out, doneOut, doneIn, donePads>>
              ELSE IF r.val = None
              THEN /\ memory' = f.memory
                   /\ source' = r.src
                   /\ cursor' = r.cur
                   /\ consumed' = consumed \o f.taken
                   /\ doneOut' = IF doneOut = -1 THEN Len(out) ELSE doneOut
                   /\ doneIn' = IF doneIn = -1 THEN Len(consumed') ELSE doneIn
                   /\ donePads' = IF donePads = -1 THEN Len(source)
                                 ELSE donePads
                   /\ UNCHANGED <<pc, panicAt, out>>
              ELSE /\ out' = Append(out, window(f.memory, r.val))
                   /\ memory' = slide(f.memory, r.val)
                   /\ source' = r.src
                   /\ cursor' = r.cur
                   /\ consumed' = (consumed \o f.taken) \o <<r.val>>
                   /\ UNCHANGED <<pc, panicAt, doneOut, doneIn, donePads>>
    /\ UNCHANGED <<config, input, n, num, memsize, pad, latePad>>

Next ==
    \/ \E k \in 0..MaxN : \E src \in Scripts(tokSize) : Ngrams_new(src, k)
    \/ Ngrams_pad
    \/ Ngrams_next

Spec == Init /\ [][Next]_vars

TypeOK ==
    /\ pc \in {"start", "live", "panicked"}
    /\ num \in 0..MaxN
    /\ cursor \in 0..Len(input)
    /\ Len(source) <= MaxPads

\* ------------------------------------------------------------ vocabulary
\* the first position of s holding None, Len(s) + 1 when there is none
RECURSIVE FirstNone(_, _)
FirstNone(s, i) ==
    IF i > Len(s) \/ s[i] = None THEN i ELSE FirstNone(s, i + 1)

\* the tokens the caller's iterator yields before it first reports exhaustion
Real(s) == SubSeq(s, 1, FirstNone(s, 1) - 1)

\* the caller's iterator keeps yielding nothing once exhausted
Fused(s) == \A i \in 1..Len(s) : \A j \in i..Len(s) : s[i] = None => s[j] = None

\* the k-grams of the stream s, in order
Windows(s, k) == [i \in 1..(Len(s) - k + 1) |-> SubSeq(s, i, i + k - 1)]

Sentinels(k) == [i \in 1..k |-> Pad_symbol]

\* next has returned None
Done == doneOut # -1

\* the windows returned, and the stream pulled, up to the first None
DoneWindows == SubSeq(out, 1, doneOut)
DoneStream == SubSeq(consumed, 1, doneIn)

\* pad() applied once, before any pull
PaddedOnce == pad /\ Len(source) = 1 /\ ~latePad

\* ------------------------------------------------------------------ claims
\* C1: for N >= 2, the windows returned up to the first None are exactly the
\* N-grams of the stream the windowing stage pulled, in order, sliding by one;
\* unpadded, that stream is the caller's tokens.
C1_Windows ==
    (Done /\ num >= 2) =>
        /\ DoneWindows = Windows(DoneStream, num)
        /\ doneIn >= num - 1
        /\ ~pad => DoneStream = Real(input)

C1_Witness ==
    /\ Done /\ ~pad /\ num = 2 /\ doneOut = 3
    /\ out = <<<<"a", "pad">>, <<"pad", "pad">>, <<"pad", "a">>>>

\* C2: unpadded, N >= 1, a source of length L >= N-1 gives exactly L - N + 1
\* windows before the first None (none, and no abort, when L = N-1).
C2_Count ==
    (Done /\ ~pad /\ num >= 1) =>
        /\ Len(Real(input)) >= num - 1
        /\ doneOut = Len(Real(input)) - num + 1
        /\ pc = "live"

C2_Witness ==
    /\ Done /\ ~pad /\ num = 3 /\ Len(Real(input)) = 2 /\ doneOut = 0
    /\ pc = "live"

\* C3: new(source, N).pad() over a finite source of length L gives exactly
\* L + N - 1 windows, out of a padded stream of length L + 2(N-1).
C3_PaddedCount ==
    (Done /\ PaddedOnce /\ Fused(input) /\ num >= 1) =>
        /\ doneOut = Len(Real(input)) + num - 1
        /\ doneIn = Len(Real(input)) + 2 * (num - 1)

C3_Witness ==
    /\ Done /\ PaddedOnce /\ Fused(input) /\ num = 3
    /\ Len(Real(input)) = 2 /\ doneOut = 4

\* C4 (as claimed): every window returned has length exactly N, for N >= 1.
C4_Claim ==
    (pc # "start" /\ n >= 1) => \A i \in 1..Len(out) : Len(out[i]) = n

\* C5 (as claimed): N = 1 unpadded returns the one-token windows of the
\* source tokens, in order.
C5_Claim ==
    (Done /\ ~pad /\ num = 1) =>
        DoneWindows = [i \in 1..Len(Real(input)) |-> <<Real(input)[i]>>]

\* C6: the padding stage with P = N-1 yields P sentinels, the source tokens
\* unchanged and in order, then P sentinels.
C6_PaddedStream ==
    (Done /\ PaddedOnce /\ Fused(input) /\ num >= 1) =>
        DoneStream = Sentinels(num - 1) \o Real(input) \o Sentinels(num - 1)

C6_Witness ==
    /\ Done /\ PaddedOnce /\ Fused(input) /\ num = 3
    /\ DoneStream = <<"pad", "pad", "a", "a", "pad", "pad">>

\* C7 (as claimed): once next has returned None no later call returns a
\* window, whatever the source does.
C7_Claim == [][Done => out' = out]_vars

\* C7 (amended): once next has returned None no later call returns a window,
\* provided the caller's iterator keeps yielding nothing once exhausted and
\* pad() is not applied after that None.
C7_Permanent ==
    [][(Done /\ Fused(input) /\ Len(source') = donePads) => out' = out]_vars

C7_Witness ==
    /\ Done /\ Fused(input) /\ pad /\ doneOut >= 2
    /\ cursor = Len(input) /\ Len(input) > Len(Real(input))

\* C8: unpadded, N >= 2, a source of fewer than N-1 tokens: the first call of
\* next aborts in fill_memory and no window was returned.
C8_Abort ==
    (pulled /\ ~pad /\ n >= 2 /\ Len(Real(input)) < n - 1) =>
        /\ pc = "panicked"
        /\ panicAt = "first"
        /\ out = <<>>

C8_Witness ==
    /\ pulled /\ ~pad /\ n = 3 /\ Len(Real(input)) = 1
    /\ panicAt = "first"

\* C9 (as claimed): new with N = 0 never returns a producer; it is rejected
\* at construction.
C9_Claim ==
    (pc # "start" /\ n = 0) => (pc = "panicked" /\ panicAt = "new")

\* C10: padded, N >= 2, L >= 1: every position of the source is contained
\* in exactly N of the windows.
Covering(j) ==
    {i \in 1..doneOut :
        \E k \in 1..Len(out[i]) :
            /\ i + k - 1 = (num - 1) + j
            /\ out[i][k] = Real(input)[j]}

C10_Coverage ==
    (Done /\ PaddedOnce /\ Fused(input) /\ num >= 2) =>
        \A j \in 1..Len(Real(input)) : Cardinality(Covering(j)) = num

C10_Witness ==
    /\ Done /\ PaddedOnce /\ Fused(input) /\ num = 3
    /\ Len(Real(input)) = 3

\* C11: with pad length 0 (N = 1) the padding stage is a pass-through: each
\* pull of next pulls the caller's iterator once and gets exactly what it
\* returned, a token unchanged or nothing; no sentinel is inserted.
C11_PassThrough ==
    [][(pc = "live" /\ num = 1 /\ Len(source) = 1 /\ Len(source') = 1) =>
        LET r == raw_next(input, cursor)
        IN  /\ cursor' = r.cur
            /\ pc' = "live"
            /\ IF r.val = None
               THEN consumed' = consumed /\ out' = out /\ Done'
               ELSE /\ consumed' = Append(consumed, r.val)
                    /\ Len(out') = Len(out) + 1]_vars

C11_Witness ==
    /\ pc = "live" /\ num = 1 /\ PaddedOnce
    /\ input = <<"a", None, "a">> /\ cursor = 3
    /\ consumed = <<"a", "a">>

\* C12: unpadded, a source of exactly N tokens gives exactly one window,
\* the source's tokens in order.
C12_OneWindow ==
    (Done /\ ~pad /\ num >= 1 /\ Len(Real(input)) = num) =>
        DoneWindows = <<Real(input)>>

C12_Witness ==
    /\ Done /\ ~pad /\ num = 3 /\ Real(input) = <<"a", "pad", "pad">>
    /\ out = <<<<"a", "pad", "pad">>>>

\* the last k elements of s
LastK(s, k) == SubSeq(s, Len(s) - k + 1, Len(s))

\* C13 (as claimed): for N >= 1 the memory never holds more than N-1
\* elements, and once a call of next has returned it holds exactly the N-1
\* elements pulled last, oldest first.
C13_Claim ==
    (pc # "start" /\ n >= 1) =>
        /\ Len(memory) <= n - 1
        /\ (pulled /\ pc = "live") =>
               /\ Len(memory) = n - 1
               /\ memory = LastK(consumed, n - 1)

\* the state of a Padded layer right after Padded::new
Untouched(p) == p.remaining = p.len /\ ~p.end

\* C14: new and pad pull nothing; the N-1 fill-up pulls are made in the
\* first call of next only and each window costs one more pull, so that
\* after k windows exactly (N-1) + k elements have been consumed.
C14_Pulls ==
    /\ ~pulled =>
          /\ consumed = <<>>
          /\ cursor = 0
          /\ \A i \in 1..Len(source) : Untouched(source[i])
    /\ (pulled /\ pc = "live" /\ num >= 1) =>
          Len(consumed) = (num - 1) + Len(out)

C14_Witness ==
    /\ pulled /\ pc = "live" /\ num = 3 /\ pad
    /\ Len(out) = 3 /\ Len(consumed) = 5

\* C16: for N >= 1 the last N-1 elements of each window are the first N-1
\* elements of the window returned next.
C16_Overlap ==
    (pc # "start" /\ num >= 1) =>
        \A i \in 1..(Len(out) - 1) :
            LastK(out[i], num - 1) = SubSeq(out[i + 1], 1, num - 1)

C16_Witness ==
    /\ num = 3 /\ Len(out) >= 2
    /\ out[1] = <<"pad", "a", "pad">> /\ out[2] = <<"a", "pad", "a">>

\* C17: with pad() applied once right after construction and N >= 1, no
\* call of next panics in fill_memory, whatever the length of the source.
C17_NoAbort ==
    (PaddedOnce /\ num >= 1) => (pc = "live" /\ panicAt = "none")

C17_Witness ==
    /\ PaddedOnce /\ num = 3 /\ Real(input) = <<>> /\ Done
    /\ pc = "live" /\ doneOut = 2

\* the tokens of s, its None entries left out
IsToken(x) == x # None
Tokens(s) == SelectSeq(s, IsToken)

IsPrefix(s, t) == Len(s) <= Len(t) /\ s = SubSeq(t, 1, Len(s))

\* the tokens the Padded layer has passed on from its source
PaddedPassed == Tokens(SubSeq(input, 1, cursor))

\* C18: whatever the pulls and whatever the source does, the Padded layer
\* (wrapped around the source before any pull, so that all it returns is
\* what the windowing stage consumed) emits its sentinels in two runs of
\* at most P: before it first pulls its source, and right after that source
\* first yields nothing; later Nones arm nothing, so at most 2P sentinels
\* are emitted in all.
C18_ArmedOnce ==
    PaddedOnce =>
        LET P == source[1].len
            rest == SubSeq(input, Len(Real(input)) + 1, Len(input))
        IN  /\ IsPrefix(consumed,
                        Sentinels(P) \o Real(input) \o Sentinels(P)
                            \o Tokens(rest))
            /\ Len(consumed) - Len(PaddedPassed) <= 2 * P
            /\ (cursor = 0 /\ ~source[1].end) => Len(consumed) <= P

C18_Witness ==
    /\ PaddedOnce /\ num = 2
    /\ input = <<"a", None, "a", None>> /\ cursor = 4 /\ Done
    /\ consumed = <<"pad", "a", "pad", "a">>

\* C15: over a source that keeps yielding nothing once exhausted, Padded
\* with its one reused counter returns on every pull, also after the end,
\* what the machine with a leading and a trailing countdown returns.
C15_TwoCountdowns == Fused(input) => agree

C15_Witness ==
    /\ agree /\ Fused(input) /\ PaddedOnce /\ num = 3 /\ Done
    /\ Len(Real(input)) = 2
    /\ twin[1].leading = 0 /\ twin[1].trailing = 0 /\ twin[1].exhausted
    /\ source[1].remaining = 0 /\ source[1].end

====
